---- MODULE Spec2Model ----
(***************************************************************************)
(* Model of utils/mcp_client.py: MCPClient, the client of a line-delimited *)
(* JSON-RPC server run as a child process.  The state is the client's      *)
(* fields, the caller's position inside initialize / call_tool, and the    *)
(* child process with its pipes.  The server is the environment: it may    *)
(* write any line of ServerLines to its stdout, or exit, at any time.      *)
(***************************************************************************)
EXTENDS Integers, Sequences, FiniteSets, TLC

\* ---------------------------------------------------------------- bounds
\* Number of call_tool invocations that get past the initialized check.
MaxCalls == 2
\* Number of child processes subprocess.Popen is asked to start.
MaxSpawn == 2
\* Lines the server has written to stdout that the client has not read yet.
MaxPipe == 1
\* Longest content sequence of a tools/call result.
MaxContent == 3

\* ------------------------------------------------------- program constants
\* self.rpc_id_counter = 100
InitialRpcIdCounter == 100
\* max_attempts = 20 (initialize), max_attempts = 50 (call_tool)
InitMaxAttempts == 20
CallMaxAttempts == 50

\* ------------------------------------------------------------ JSON values
\* A Python value obtained from json.loads, tagged with its Python type.
\* A dict is the sequence of its <<key, value>> pairs in insertion order.
JNull == [t |-> "null", v |-> 0]
JBool(b) == [t |-> "bool", v |-> b]
JNum(n) == [t |-> "num", v |-> n]
JStr(s) == [t |-> "str", v |-> s]
JList(s) == [t |-> "list", v |-> s]
JObj(pairs) == [t |-> "obj", v |-> pairs]

IsDict(x) == x.t = "obj"
IsList(x) == x.t = "list"
IsStr(x) == x.t = "str"

\* key in d
HasKey(d, k) == \E i \in 1..Len(d.v) : d.v[i][1] = k
\* d[key], for a key the dict holds
Item(d, k) == d.v[CHOOSE i \in 1..Len(d.v) : d.v[i][1] = k][2]
\* d.get(key, default)
GetOr(d, k, default) == IF HasKey(d, k) THEN Item(d, k) ELSE default
\* d.get(key): None when the key is absent
Get(d, k) == GetOr(d, k, JNull)

\* bool(x): None, False, 0, "", [] and {} are falsy
Truthy(x) ==
  CASE x.t = "null" -> FALSE
    [] x.t = "bool" -> x.v
    [] x.t = "num" -> x.v # 0
    [] x.t = "str" -> x.v # ""
    [] OTHER -> Len(x.v) > 0

\* ", ".join(parts)
RECURSIVE CommaJoin(_)
CommaJoin(parts) ==
  IF Len(parts) = 0 THEN ""
  ELSE IF Len(parts) = 1 THEN parts[1]
  ELSE parts[1] \o ", " \o CommaJoin(Tail(parts))

\* repr(x)
RECURSIVE PyRepr(_)
PyRepr(x) ==
  CASE x.t = "null" -> "None"
    [] x.t = "bool" -> IF x.v THEN "True" ELSE "False"
    [] x.t = "num" -> ToString(x.v)
    [] x.t = "str" -> "'" \o x.v \o "'"
    [] x.t = "list" -> "[" \o CommaJoin([i \in 1..Len(x.v) |-> PyRepr(x.v[i])]) \o "]"
    [] OTHER -> "{" \o CommaJoin([i \in 1..Len(x.v) |->
                       "'" \o x.v[i][1] \o "': " \o PyRepr(x.v[i][2])]) \o "}"

\* str(x): a string is itself, anything else its repr
PyStr(x) == IF IsStr(x) THEN x.v ELSE PyRepr(x)

\* ------------------------------------------------------------ outcomes
\* What an operation hands back to its caller: the returned value, or the
\* text of the raised exception.
Ok(op, value) == [op |-> op, ok |-> TRUE, val |-> value, err |-> ""]
Fail(op, text) == [op |-> op, ok |-> FALSE, val |-> JNull, err |-> text]
NoOutcome == [op |-> "none", ok |-> TRUE, val |-> JNull, err |-> ""]

\* ------------------------------------------------------ response handling
\* The text call_tool takes from one content item, by priority.
ItemTextNoRaw(item) ==
  IF IsDict(item) /\ HasKey(item, "text") THEN Item(item, "text")
  ELSE IF IsStr(item) THEN item
  ELSE JStr(PyStr(item))
ItemText(item) ==
  IF IsDict(item) /\ HasKey(item, "text") THEN Item(item, "text")
  ELSE IF IsDict(item) /\ HasKey(item, "raw") /\ IsDict(Item(item, "raw"))
          /\ HasKey(Item(item, "raw"), "text") THEN Item(Item(item, "raw"), "text")
  ELSE IF IsStr(item) THEN item
  ELSE JStr(PyStr(item))

\* "\n\n".join(texts), for texts that are all strings
RECURSIVE JoinTexts(_)
JoinTexts(texts) ==
  IF Len(texts) = 0 THEN ""
  ELSE IF Len(texts) = 1 THEN texts[1].v
  ELSE texts[1].v \o "\n\n" \o JoinTexts(Tail(texts))

\* len(x) is defined for strings, lists and dicts only
HasLen(x) == x.t \in {"str", "list", "obj"}

\* "return result": a result without content goes back as it came
PlainResultAsText(result) == Ok("call_tool", JStr(PyStr(result)))
PlainResult(result) == Ok("call_tool", result)

\* call_tool from "result = response['result']" on
NormalizeResult(result) ==
  IF IsDict(result) /\ HasKey(result, "content")
  THEN LET content == Item(result, "content") IN
       IF ~HasLen(content)
       THEN Fail("call_tool", "TypeError: object has no len()")
       ELSE IF IsList(content) /\ Len(content.v) > 0
       THEN LET texts == [i \in 1..Len(content.v) |-> ItemText(content.v[i])] IN
            IF \A i \in 1..Len(texts) : IsStr(texts[i])
            THEN Ok("call_tool", JStr(JoinTexts(texts)))
            ELSE Fail("call_tool", "TypeError: sequence item: expected str instance")
       ELSE Ok("call_tool", content)
  ELSE PlainResult(result)

\* call_tool from "# Handle response" on, for the matched response
HandleResponseLenient(resp) ==
  IF HasKey(resp, "result") THEN NormalizeResult(Item(resp, "result"))
  ELSE IF HasKey(resp, "error")
  THEN Fail("call_tool", "MCP tool error: "
            \o PyStr(GetOr(Item(resp, "error"), "message", JStr("Unknown MCP error"))))
  ELSE Ok("call_tool", JNull)
HandleResponse(resp) ==
  IF HasKey(resp, "error")
  THEN LET error == Item(resp, "error") IN
       IF IsDict(error)
       THEN Fail("call_tool", "MCP tool error: "
                 \o PyStr(GetOr(error, "message", JStr("Unknown MCP error"))))
       ELSE Fail("call_tool", "AttributeError: object has no attribute 'get'")
  ELSE IF ~HasKey(resp, "result")
  THEN Fail("call_tool", "Invalid MCP response: missing result")
  ELSE NormalizeResult(Item(resp, "result"))

\* ------------------------------------------------------------------ lines
\* One line of the child's stdout: blank, not JSON, or the JSON text of val.
BlankLine == [raw |-> "blank", val |-> JNull]
GarbageLine == [raw |-> "garbage", val |-> JNull]
JsonLine(x) == [raw |-> "json", val |-> x]
\* readline() at end of file returns ""
EofLine == [raw |-> "eof", val |-> JNull]

\* _read_json_line, given what readline() returned: None at end of file, for
\* a blank line and for a line json.loads rejects; else the decoded value.
ParseLineRaising(line) == IF line.raw = "garbage" THEN JNum(1) ELSE line.val
ParseLine(line) == IF line.raw = "json" THEN line.val ELSE JNull

\* A message is ours when msg.get("id") == call_id
IsAnyResponse(msg, id) == TRUE
IsLatestTwoResponse(msg, id) == Get(msg, "id") \in {JNum(id), JNum(id - 1)}
IsOurResponse(msg, id) == Get(msg, "id") = JNum(id)

\* Envelopes of the wire protocol
Reply(id, key, value) ==
  JObj(<< <<"jsonrpc", JStr("2.0")>>, <<"id", JNum(id)>>, <<key, value>> >>)
ReplyWithBoth(id, error, result) ==
  JObj(<< <<"jsonrpc", JStr("2.0")>>, <<"id", JNum(id)>>,
          <<"result", result>>, <<"error", error>> >>)
BareReply(id) == JObj(<< <<"jsonrpc", JStr("2.0")>>, <<"id", JNum(id)>> >>)
Notification(method) ==
  JObj(<< <<"jsonrpc", JStr("2.0")>>, <<"method", JStr(method)>> >>)
Request(id, method) == [id |-> id, method |-> method]
NoId == -1

ToolFoo == JObj(<< <<"name", JStr("foo")>>, <<"description", JStr("d")>> >>)
ToolBar == JObj(<< <<"name", JStr("bar")>>, <<"description", JStr("e")>> >>)
Catalogs == {<<>>, <<ToolFoo>>, <<ToolFoo, ToolBar>>}
ToolsResult(tools) == JObj(<< <<"tools", JList(tools)>> >>)
ErrorPayload(text) == JObj(<< <<"message", JStr(text)>> >>)
TextContent(text) == JObj(<< <<"content", JList(<< JObj(<< <<"text", JStr(text)>> >>) >>)>> >>)

\* ------------------------------------------------------------------ state
VARIABLES
  process,         \* self.process: 0 is None, else the pid of the Popen handle
  rpc_id_counter,  \* self.rpc_id_counter
  alive,           \* pids of the started children that have not exited
  spawned,         \* number of children started so far
  stdout,          \* lines written by the held child and not read yet
  stdin,           \* requests written to the held child's stdin, in order
  pc,              \* where the caller is: "idle", "init_wait" or "call_wait"
  call_id,         \* call_tool's local call_id
  attempts,        \* the running poll loop's local attempts (0 when no loop runs)
  response,        \* call_tool's local response (None until matched)
  outcome,         \* what the last finished operation returned or raised
  issued,          \* ids placed in tools/call requests, in invocation order
  seen,            \* what this call_tool has read and passed over: "nothing",
                   \* only unrelated JSON "objects", or something "other"
  prevGarbage,     \* the line this call_tool read last was not JSON
  cleanStreak,     \* cleanups made in a row just before the last operation, capped at 2
  signalled,       \* what the last operation called on its process handle to stop
                   \* the child, in order: "terminate", "kill"
  drains,          \* the stderr threads started by initialize, one per started
                   \* child: where each is in _log_server_output
  callers,         \* caller threads that run call_tool side by side: where each
                   \* is in lines 159-184, and its locals
  session          \* st.session_state of the Streamlit app, per MCP assistant

vars == <<process, rpc_id_counter, alive, spawned, stdout, stdin, pc, call_id,
          attempts, response, outcome, issued, seen, prevGarbage, cleanStreak,
          signalled, drains, callers, session>>

\* The stderr thread of the n-th child: not started, or at one of the loads of
\* self.process in _log_server_output, or inside readline on a child's stderr.
NoDrain == [pc |-> "none", target |-> 0]
DrainStarted == [pc |-> "test", target |-> 0]

\* The threads that call call_tool on one client without a lock.
Threads == {"a", "b"}
CallerIdle == [pc |-> "idle", loaded |-> 0, id |-> 0]

\* The assistants that talk to an MCP server, and what the session holds for
\* one of them: listed is its key in assistants_initialized, flag is
\* <assistant>_initialized, stored is the assistant object ("none", "bare"
\* with mcp_client None, or "client"), held is the process of its client,
\* procKey is <assistant>_mcp_proc (0 when absent).
Assistants == {"wazuh", "thehive"}
NoSession == [listed |-> FALSE, flag |-> FALSE, stored |-> "none", held |-> 0, procKey |-> 0]

\* MCPClient.__init__
Init ==
  /\ process = 0
  /\ rpc_id_counter = InitialRpcIdCounter
  /\ alive = {}
  /\ spawned = 0
  /\ stdout = <<>>
  /\ stdin = <<>>
  /\ pc = "idle"
  /\ call_id = 0
  /\ attempts = 0
  /\ response = JNull
  /\ outcome = NoOutcome
  /\ issued = <<>>
  /\ seen = "nothing"
  /\ prevGarbage = FALSE
  /\ cleanStreak = 0
  /\ signalled = <<>>
  /\ drains = [n \in 1..MaxSpawn |-> NoDrain]
  /\ callers = [t \in Threads |-> CallerIdle]
  /\ session = [a \in Assistants |-> NoSession]

\* ----------------------------------------------------------- the server
\* Ids a server can answer: the handshake's, the latest call's, the one before.
\* The server answers the requests it was sent, in the order it was sent
\* them: until a tools/call request reaches it, its replies are to the
\* handshake's identifiers; from then on, to the latest call's identifier and
\* to the call's before it.  At any time it may write a blank line, a line
\* that is not JSON, JSON that is not an object, or a notification.
CallIdsSent == {stdin[i].id : i \in 4..Len(stdin)}
LatestIds == {id \in CallIdsSent : id = rpc_id_counter}
StaleIds == {id \in CallIdsSent : id = rpc_id_counter - 1}

NoiseLines ==
  {BlankLine, GarbageLine, JsonLine(JNum(42)),
   JsonLine(Notification("notifications/message"))}

HandshakeLines ==
  {JsonLine(Reply(0, "result", JObj(<<>>))),
   JsonLine(Reply(1, "result", JNull)),
   JsonLine(Reply(1, "error", ErrorPayload("bad version")))}
  \cup {JsonLine(Reply(1, "result", ToolsResult(c))) : c \in Catalogs}

CallLines ==
  {JsonLine(Reply(id, "result", TextContent("stale"))) : id \in StaleIds}
  \cup UNION {{JsonLine(Reply(id, "result", TextContent("ok"))),
               JsonLine(Reply(id, "result", JNum(42))),
               JsonLine(Reply(id, "error", ErrorPayload("boom"))),
               JsonLine(Reply(id, "error", JObj(<< <<"code", JNum(5)>> >>))),
               JsonLine(Reply(id, "error", JStr("boom"))),
               JsonLine(ReplyWithBoth(id, ErrorPayload("boom"), TextContent("ok"))),
               JsonLine(BareReply(id))} : id \in LatestIds}

ServerLines ==
  NoiseLines \cup (IF CallIdsSent = {} THEN HandshakeLines ELSE CallLines)

\* The held child writes one more line to its stdout.
ServerWrite ==
  /\ process # 0 /\ process \in alive
  /\ Len(stdout) < MaxPipe
  /\ \E line \in ServerLines : stdout' = Append(stdout, line)
  /\ UNCHANGED <<process, rpc_id_counter, alive, spawned, stdin, pc, call_id,
                 attempts, response, outcome, issued, seen, prevGarbage, cleanStreak,
                 signalled, drains, callers, session>>

\* The held child exits on its own; what it wrote stays readable.
ServerExit ==
  /\ process # 0 /\ process \in alive
  /\ alive' = alive \ {process}
  /\ UNCHANGED <<process, rpc_id_counter, spawned, stdout, stdin, pc, call_id,
                 attempts, response, outcome, issued, seen, prevGarbage, cleanStreak,
                 signalled, drains, callers, session>>

\* --------------------------------------------------------- the transport
\* self.process.stdout.readline() returns: the next line, or "" at end of
\* file once the child has exited.  With the child alive and nothing written
\* it does not return.
CanRead == stdout # <<>> \/ process \notin alive
NextLine == IF stdout # <<>> THEN Head(stdout) ELSE EofLine
RestOfStdout == IF stdout # <<>> THEN Tail(stdout) ELSE stdout

\* _send_message's write succeeds while the child holds the other end of the pipe
CanWriteAlways == TRUE
CanWrite == process \in alive

\* _send_message: what it raises, "" when the message was written
SendErrorHandleOnly == IF process = 0 THEN "MCP process not running" ELSE ""
SendError ==
  IF process = 0 THEN "MCP process not running"
  ELSE IF ~CanWrite THEN "[Errno 32] Broken pipe"
  ELSE ""

\* ------------------------------------------------------------- initialize
\* The except clause of initialize: kill the held process, drop the handle,
\* raise "Failed to initialize MCP client: <e>".
InitFailKeepsHandle(text) ==
  /\ UNCHANGED <<process, alive, stdout, stdin>>
  /\ pc' = "idle"
  /\ attempts' = 0
  /\ outcome' = Fail("initialize", "Failed to initialize MCP client: " \o text)
  /\ signalled' = <<>>
InitFailNoKill(text) ==
  /\ UNCHANGED alive
  /\ process' = 0
  /\ stdout' = <<>>
  /\ stdin' = <<>>
  /\ pc' = "idle"
  /\ attempts' = 0
  /\ outcome' = Fail("initialize", "Failed to initialize MCP client: " \o text)
  /\ signalled' = <<>>
InitFail(text) ==
  /\ alive' = alive \ {process}
  /\ process' = 0
  /\ stdout' = <<>>
  /\ stdin' = <<>>
  /\ pc' = "idle"
  /\ attempts' = 0
  /\ outcome' = Fail("initialize", "Failed to initialize MCP client: " \o text)
  /\ signalled' = IF process # 0 THEN <<"kill">> ELSE <<>>

\* The three handshake messages, in the order initialize writes them
InitMessagesListFirst ==
  << Request(0, "initialize"),
     Request(1, "tools/list"),
     Request(NoId, "notifications/initialized") >>
InitMessages ==
  << Request(0, "initialize"),
     Request(NoId, "notifications/initialized"),
     Request(1, "tools/list") >>

\* raise Exception(f"MCP initialization error: {msg['error']}")
InitErrorTextNoPayload(msg) == "MCP initialization error"
InitErrorText(msg) == "MCP initialization error: " \o PyStr(Item(msg, "error"))

\* if not tools and attempts >= max_attempts
InitTimedOutOnEmpty(tools, n) == ~Truthy(tools)
InitTimedOut(tools, n) == ~Truthy(tools) /\ n >= InitMaxAttempts

\* The locals of the invocation before are gone when the next one starts.
ForgetLocals ==
  /\ call_id' = 0
  /\ attempts' = 0
  /\ response' = JNull
  /\ seen' = "nothing"
  /\ prevGarbage' = FALSE

\* The operations count the cleanups made in a row before them.
StreakAtStart == IF outcome.op = "cleanup" THEN cleanStreak ELSE 0

\* initialize up to the poll loop: start the child, write the handshake.
InitializeStart ==
  /\ pc = "idle"
  /\ cleanStreak' = StreakAtStart
  /\ call_id' = 0
  /\ response' = JNull
  /\ seen' = "nothing"
  /\ prevGarbage' = FALSE
  /\ UNCHANGED <<rpc_id_counter, issued, callers, session>>
  /\ \/ \* Popen raises: self.process still holds what it held before
        /\ InitFail("[Errno 2] No such file or directory")
        /\ UNCHANGED <<spawned, drains>>
     \/ \* the child starts and lives through the three writes
        /\ spawned < MaxSpawn
        /\ spawned' = spawned + 1
        /\ process' = spawned + 1
        /\ alive' = alive \cup {spawned + 1}
        /\ stdout' = <<>>
        /\ stdin' = InitMessages
        /\ pc' = "init_wait"
        /\ attempts' = 0
        /\ outcome' = NoOutcome
        /\ signalled' = <<>>
        /\ drains' = [drains EXCEPT ![spawned + 1] = DrainStarted]
     \/ \* the child starts and exits before a write: BrokenPipeError
        /\ spawned < MaxSpawn
        /\ spawned' = spawned + 1
        /\ process' = 0
        /\ alive' = alive
        /\ stdout' = <<>>
        /\ stdin' = <<>>
        /\ pc' = "idle"
        /\ attempts' = 0
        /\ outcome' = Fail("initialize",
                           "Failed to initialize MCP client: [Errno 32] Broken pipe")
        /\ signalled' = <<"kill">>
        /\ drains' = [drains EXCEPT ![spawned + 1] = DrainStarted]

\* if msg.get("id") == 1: the reply to the tools/list request
IsAnyIdReply(msg) == HasKey(msg, "id")
IsToolsListReply(msg) == IsOurResponse(msg, 1)

\* One turn of initialize's poll loop, with what follows the loop when the
\* turn ends it.
InitPoll ==
  /\ pc = "init_wait"
  /\ CanRead
  /\ UNCHANGED <<rpc_id_counter, spawned, call_id, response, issued,
                 prevGarbage, cleanStreak, drains, callers, session>>
  /\ LET line == NextLine
         msg == ParseLine(line)
         n == attempts + 1
         passedOver == IF seen # "other" /\ line.raw = "json" /\ IsDict(msg)
                       THEN "objects" ELSE "other"
         succeed(tools) == /\ outcome' = Ok("initialize", tools)
                           /\ pc' = "idle"
                           /\ attempts' = 0
                           /\ stdout' = RestOfStdout
                           /\ UNCHANGED <<process, alive, stdin, signalled>>
     IN
     IF Truthy(msg) /\ ~IsDict(msg)
     THEN \* msg.get on a value that is not a dict
          /\ InitFail("AttributeError: object has no attribute 'get'")
          /\ seen' = "other"
     ELSE IF Truthy(msg) /\ IsToolsListReply(msg) /\ HasKey(msg, "result")
     THEN /\ UNCHANGED seen
          /\ LET result == Item(msg, "result") IN
             IF ~IsDict(result)
             THEN InitFail("AttributeError: object has no attribute 'get'")
             ELSE LET tools == GetOr(result, "tools", JList(<<>>)) IN
                  IF InitTimedOut(tools, attempts)
                  THEN InitFail("Timeout waiting for tools list")
                  ELSE succeed(tools)
     ELSE IF Truthy(msg) /\ IsToolsListReply(msg) /\ HasKey(msg, "error")
     THEN /\ InitFail(InitErrorText(msg))
          /\ UNCHANGED seen
     ELSE /\ seen' = passedOver
          /\ IF n < InitMaxAttempts
             THEN /\ attempts' = n
                  /\ stdout' = RestOfStdout
                  /\ UNCHANGED <<process, alive, stdin, pc, outcome, signalled>>
             ELSE IF InitTimedOut(JList(<<>>), n)
             THEN InitFail("Timeout waiting for tools list")
             ELSE succeed(JList(<<>>))

\* -------------------------------------------------------------- call_tool
\* self.rpc_id_counter += 1
StaleRpcId(counter) == counter
SkippingRpcId(counter) == counter + 2
NextRpcId(counter) == counter + 1

\* self._send_message(rpc_call): what one call_tool writes to the child
CallRequestsResent(id) == << Request(id, "tools/call"), Request(id, "tools/call") >>
CallRequests(id) == << Request(id, "tools/call") >>

\* call_tool up to the poll loop: the initialized check, the identifier, the
\* request and its write.
CallToolStart ==
  /\ pc = "idle"
  /\ cleanStreak' = StreakAtStart
  /\ UNCHANGED <<process, alive, spawned, stdout, drains, callers, session>>
  /\ signalled' = <<>>
  /\ IF process = 0
     THEN /\ outcome' = Fail("call_tool", "MCP client not initialized")
          /\ ForgetLocals
          /\ UNCHANGED <<rpc_id_counter, stdin, pc, issued>>
     ELSE /\ rpc_id_counter < InitialRpcIdCounter + MaxCalls
          /\ rpc_id_counter' = NextRpcId(rpc_id_counter)
          /\ call_id' = rpc_id_counter'
          /\ issued' = Append(issued, call_id')
          /\ attempts' = 0
          /\ response' = JNull
          /\ seen' = "nothing"
          /\ prevGarbage' = FALSE
          /\ IF SendError = ""
             THEN /\ stdin' = stdin \o CallRequests(call_id')
                  /\ pc' = "call_wait"
                  /\ outcome' = NoOutcome
             ELSE /\ outcome' = Fail("call_tool", "Failed to send MCP call: " \o SendError)
                  /\ UNCHANGED <<stdin, pc>>

\* Neither the poll loop nor the raises after it touch self.process: the
\* child and its pipes stay as they are, however the call ends.
ConnectionDroppedOnFailure ==
  IF pc' = "idle" /\ ~outcome'.ok
  THEN process' = 0 /\ alive' = alive \ {process} /\ stdin' = <<>>
  ELSE UNCHANGED <<process, alive, stdin>>
ConnectionKept == UNCHANGED <<process, alive, stdin>>

\* One turn of call_tool's poll loop, with what follows the loop when the
\* turn ends it.
CallPoll ==
  /\ pc = "call_wait"
  /\ CanRead
  /\ stdout' = RestOfStdout
  /\ UNCHANGED <<rpc_id_counter, spawned, call_id, issued,
                 cleanStreak, signalled, drains, callers, session>>
  /\ LET line == NextLine
         msg == ParseLine(line)
         n == attempts + 1
         skip == /\ seen' = IF seen # "other" /\ line.raw = "json" /\ IsDict(msg)
                            THEN "objects" ELSE "other"
                 /\ prevGarbage' = (line.raw = "garbage")
                 /\ UNCHANGED response
                 /\ IF n < CallMaxAttempts
                    THEN /\ attempts' = n
                         /\ UNCHANGED <<pc, outcome>>
                    ELSE /\ attempts' = 0
                         /\ pc' = "idle"
                         /\ outcome' = Fail("call_tool", "Timeout waiting for MCP response")
     IN
     IF ~Truthy(msg) THEN skip
     ELSE IF ~IsDict(msg)
     THEN \* msg.get on a value that is not a dict
          /\ pc' = "idle"
          /\ attempts' = 0
          /\ outcome' = Fail("call_tool", "AttributeError: object has no attribute 'get'")
          /\ seen' = "other"
          /\ prevGarbage' = FALSE
          /\ UNCHANGED response
     ELSE IF IsOurResponse(msg, call_id)
     THEN /\ response' = msg
          /\ pc' = "idle"
          /\ attempts' = 0
          /\ outcome' = HandleResponse(msg)
          /\ UNCHANGED <<seen, prevGarbage>>
     ELSE skip
  /\ ConnectionKept

\* ---------------------------------------------------------------- cleanup
\* cleanup returns None; nothing it does escapes as an exception
CleanupUnguarded(proc) ==
  IF proc = 0 THEN Fail("cleanup", "AttributeError: 'NoneType' object has no attribute 'terminate'")
  ELSE Ok("cleanup", JNull)
CleanupOutcome(proc) == Ok("cleanup", JNull)

\* What cleanup calls on the handle: terminate(), then wait(timeout=5), and
\* kill() when the wait raised TimeoutExpired.
CleanupSignalsKillFirst(exited) == IF exited THEN <<"terminate">> ELSE <<"kill", "terminate">>
CleanupSignals(exited) == IF exited THEN <<"terminate">> ELSE <<"terminate", "kill">>

\* cleanup: terminate, wait, kill on TimeoutExpired, and drop the handle.
\* A child that lives may exit within the five seconds or not; for a child
\* that has exited already, wait returns at once.
Cleanup ==
  /\ pc = "idle"
  /\ cleanStreak' = IF outcome.op = "cleanup" /\ cleanStreak >= 1 THEN 2 ELSE 1
  /\ outcome' = CleanupOutcome(process)
  /\ IF process # 0
     THEN /\ alive' = alive \ {process}
          /\ process' = 0
          /\ stdout' = <<>>
          /\ stdin' = <<>>
          /\ \E exited \in (IF process \in alive THEN BOOLEAN ELSE {TRUE}) :
               signalled' = CleanupSignals(exited)
     ELSE /\ UNCHANGED <<process, alive, stdout, stdin>>
          /\ signalled' = <<>>
  /\ ForgetLocals
  /\ UNCHANGED <<rpc_id_counter, spawned, pc, issued, drains, callers, session>>

\* ---------------------------------------------------------- specification
Next ==
  \/ InitializeStart
  \/ InitPoll
  \/ CallToolStart
  \/ CallPoll
  \/ Cleanup
  \/ ServerWrite
  \/ ServerExit

Spec == Init /\ [][Next]_vars

\* The caller's thread runs whenever it can: a poll loop whose read can
\* return takes its next turn.  Nothing obliges the server to write.
FairSpec == Spec /\ WF_vars(InitPoll) /\ WF_vars(CallPoll)

\* ------------------------------------------- the normalizer on its own
\* Content items a server may send: the three shapes call_tool knows, an item
\* with both text and raw, and values it has to coerce.
TextItem(text) == JObj(<< <<"type", JStr("text")>>, <<"text", JStr(text)>> >>)
RawItem(text) == JObj(<< <<"raw", JObj(<< <<"text", JStr(text)>> >>)>> >>)
ContentItems ==
  {TextItem("a"), RawItem("b"), JStr("c"), JNum(42), JNull,
   JObj(<< <<"text", JStr("t")>>, <<"raw", JObj(<< <<"text", JStr("r")>> >>)>> >>),
   JObj(<< <<"raw", JStr("x")>> >>),
   JObj(<< <<"type", JStr("image")>> >>),
   JObj(<< <<"text", JNum(5)>> >>)}

RECURSIVE SeqsUpTo(_, _)
SeqsUpTo(S, n) ==
  IF n = 0 THEN {<<>>}
  ELSE LET shorter == SeqsUpTo(S, n - 1) IN
       shorter \cup {Append(q, x) : q \in shorter, x \in S}

\* Results of a tools/call: with a content sequence, with a content that is
\* not a sequence, and without content.
NormResults ==
  {JObj(<< <<"content", JList(c)>> >>) : c \in SeqsUpTo(ContentItems, MaxContent)}
  \cup {JObj(<< <<"content", JStr("text")>> >>),
        JObj(<< <<"content", JNum(5)>> >>),
        JObj(<< <<"content", JList(<<>>)>>, <<"isError", JBool(FALSE)>> >>),
        JObj(<< <<"result_without_content", JNum(42)>> >>),
        JObj(<<>>), JNum(42), JStr("plain"), JNull, JBool(TRUE),
        JList(<< JStr("x") >>), JList(<<>>)}

\* The client after a handshake that returned one tool.
InitNorm ==
  /\ process = 1
  /\ rpc_id_counter = InitialRpcIdCounter
  /\ alive = {1}
  /\ spawned = 1
  /\ stdout = <<>>
  /\ stdin = InitMessages
  /\ pc = "idle"
  /\ call_id = 0
  /\ attempts = 0
  /\ response = JNull
  /\ outcome = Ok("initialize", JList(<<ToolFoo>>))
  /\ issued = <<>>
  /\ seen = "nothing"
  /\ prevGarbage = FALSE
  /\ cleanStreak = 0
  /\ signalled = <<>>
  /\ drains = [n \in 1..MaxSpawn |-> NoDrain]
  /\ callers = [t \in Threads |-> CallerIdle]
  /\ session = [a \in Assistants |-> NoSession]

\* The server answers the call that waits, at once and with a result.
ServerAnswers ==
  /\ pc = "call_wait"
  /\ process # 0 /\ process \in alive
  /\ attempts = 0 /\ stdout = <<>>
  /\ \E result \in NormResults :
       stdout' = << JsonLine(Reply(call_id, "result", result)) >>
  /\ UNCHANGED <<process, rpc_id_counter, alive, spawned, stdin, pc, call_id,
                 attempts, response, outcome, issued, seen, prevGarbage, cleanStreak,
                 signalled, drains, callers, session>>

NextNorm ==
  \/ CallToolStart
  \/ ServerAnswers
  \/ CallPoll

SpecNorm == InitNorm /\ [][NextNorm]_vars

\* ------------------------------------------ after a call that timed out
\* The client after a handshake and a first call_tool whose fifty polls read
\* nothing of use: the request 101 is on the pipe, its reply has not come.
InitStale ==
  /\ process = 1
  /\ rpc_id_counter = InitialRpcIdCounter + 1
  /\ alive = {1}
  /\ spawned = 1
  /\ stdout = <<>>
  /\ stdin = InitMessages \o CallRequests(InitialRpcIdCounter + 1)
  /\ pc = "idle"
  /\ call_id = InitialRpcIdCounter + 1
  /\ attempts = 0
  /\ response = JNull
  /\ outcome = Fail("call_tool", "Timeout waiting for MCP response")
  /\ issued = << InitialRpcIdCounter + 1 >>
  /\ seen = "other"
  /\ prevGarbage = FALSE
  /\ cleanStreak = 0
  /\ signalled = <<>>
  /\ drains = [n \in 1..MaxSpawn |-> IF n = 1 THEN DrainStarted ELSE NoDrain]
  /\ callers = [t \in Threads |-> CallerIdle]
  /\ session = [a \in Assistants |-> NoSession]

NextStale ==
  \/ CallToolStart
  \/ CallPoll
  \/ ServerWrite
  \/ ServerExit

SpecStale == InitStale /\ [][NextStale]_vars

\* --------------------------------------------------- the stderr threads
\* One step of the thread that initialize started with the n-th child, in
\* _log_server_output.  Every "self.process" is a load of the field as it is at
\* that moment: the loop test loads it twice (the truth test, then the call of
\* poll), the body loads it once more for its stderr.  The AttributeError of
\* the second load is raised outside the try and ends the thread with a
\* traceback; the one of the third load is caught by the bare except.
DrainStep(n) ==
  /\ drains[n].pc \in {"test", "poll", "attr", "reading"}
  /\ drains' = [drains EXCEPT ![n] =
       CASE drains[n].pc = "test" ->
              [pc |-> IF process # 0 THEN "poll" ELSE "done", target |-> 0]
         [] drains[n].pc = "poll" ->
              [pc |-> IF process = 0 THEN "faulted"
                      ELSE IF process \in alive THEN "attr" ELSE "done",
               target |-> 0]
         [] drains[n].pc = "attr" ->
              IF process = 0 THEN [pc |-> "done", target |-> 0]
              ELSE [pc |-> "reading", target |-> process]
         [] OTHER -> \* readline returned: a line, or "" at end of file
              [pc |-> "test", target |-> 0]]
  /\ UNCHANGED <<process, rpc_id_counter, alive, spawned, stdout, stdin, pc, call_id,
                 attempts, response, outcome, issued, seen, prevGarbage, cleanStreak,
                 signalled, callers, session>>

\* The server answers the tools/list request, listing one tool.
ServerListsTools ==
  /\ pc = "init_wait"
  /\ process # 0 /\ process \in alive
  /\ stdout = <<>>
  /\ stdout' = << JsonLine(Reply(1, "result", ToolsResult(<<ToolFoo>>))) >>
  /\ UNCHANGED <<process, rpc_id_counter, alive, spawned, stdin, pc, call_id,
                 attempts, response, outcome, issued, seen, prevGarbage, cleanStreak,
                 signalled, drains, callers, session>>

NextDrain ==
  \/ InitializeStart
  \/ InitPoll
  \/ Cleanup
  \/ ServerListsTools
  \/ ServerExit
  \/ \E n \in 1..MaxSpawn : DrainStep(n)

SpecDrain == Init /\ [][NextDrain]_vars

\* ------------------------------------------- call_tool from two threads
\* call_tool run by thread t on a client that other threads use too.  The
\* statement "self.rpc_id_counter += 1" is a load of the field, an addition and
\* a store; "call_id = self.rpc_id_counter" is another load.  Between any two
\* of them the interpreter may switch to the other thread.
RaceLoad(t) ==
  /\ callers[t].pc = "idle"
  /\ process # 0
  /\ Len(issued) < MaxCalls
  /\ callers' = [callers EXCEPT ![t] = [pc |-> "loaded", loaded |-> rpc_id_counter, id |-> 0]]
  /\ UNCHANGED <<process, rpc_id_counter, alive, spawned, stdout, stdin, pc, call_id,
                 attempts, response, outcome, issued, seen, prevGarbage, cleanStreak,
                 signalled, drains, session>>

RaceStore(t) ==
  /\ callers[t].pc = "loaded"
  /\ rpc_id_counter' = NextRpcId(callers[t].loaded)
  /\ callers' = [callers EXCEPT ![t].pc = "stored"]
  /\ UNCHANGED <<process, alive, spawned, stdout, stdin, pc, call_id,
                 attempts, response, outcome, issued, seen, prevGarbage, cleanStreak,
                 signalled, drains, session>>

\* call_id = self.rpc_id_counter, and the request with it is sent
RaceSend(t) ==
  /\ callers[t].pc = "stored"
  /\ callers' = [callers EXCEPT ![t] =
                   [pc |-> IF SendError = "" THEN "waiting" ELSE "idle",
                    loaded |-> 0,
                    id |-> IF SendError = "" THEN rpc_id_counter ELSE 0]]
  /\ issued' = Append(issued, rpc_id_counter)
  /\ stdin' = IF SendError = "" THEN stdin \o CallRequests(rpc_id_counter) ELSE stdin
  /\ UNCHANGED <<process, rpc_id_counter, alive, spawned, stdout, pc, call_id,
                 attempts, response, outcome, seen, prevGarbage, cleanStreak,
                 signalled, drains, session>>

\* The wait of thread t ends: with its response, or with the timeout
RaceReturn(t) ==
  /\ callers[t].pc = "waiting"
  /\ callers' = [callers EXCEPT ![t] = CallerIdle]
  /\ UNCHANGED <<process, rpc_id_counter, alive, spawned, stdout, stdin, pc, call_id,
                 attempts, response, outcome, issued, seen, prevGarbage, cleanStreak,
                 signalled, drains, session>>

NextRace ==
  \/ \E t \in Threads : RaceLoad(t)
  \/ \E t \in Threads : RaceStore(t)
  \/ \E t \in Threads : RaceSend(t)
  \/ \E t \in Threads : RaceReturn(t)
  \/ ServerExit

SpecRace == InitNorm /\ [][NextRace]_vars

\* ------------------------------------------------------ the Streamlit app
\* One run of the script, as far as the MCP assistants go.  Every assistant
\* object creates its own MCPClient; alive holds the children of all of them.
\* What the app leaves alone of the client modelled above stays as it is.
UiFrame ==
  UNCHANGED <<process, rpc_id_counter, stdout, stdin, pc, call_id, attempts,
              response, outcome, issued, seen, prevGarbage, cleanStreak,
              signalled, drains, callers>>

\* "Reconnect MCP" pressed with assistant a selected: the two keys are
\* deleted and st.rerun() ends the run.
UiReconnect(a) ==
  /\ session' = [session EXCEPT ![a].procKey = 0, ![a].listed = FALSE]
  /\ UNCHANGED <<alive, spawned>>
  /\ UiFrame

\* A run with assistant a selected and no button pressed: main creates the
\* assistant when its key is not in assistants_initialized, then calls run(),
\* which calls initialize_resources only while <a>_initialized is not set.
\* initialize_resources makes a new MCPClient and initializes it; when that
\* raises, run() reports the error and the flag stays unset.
UiRun(a) ==
  LET created == IF session[a].listed THEN session[a]
                 ELSE [session[a] EXCEPT !.listed = TRUE, !.stored = "bare", !.held = 0]
  IN
  /\ UiFrame
  /\ IF created.flag
     THEN /\ session' = [session EXCEPT ![a] = created]
          /\ UNCHANGED <<alive, spawned>>
     ELSE \/ \* initialize() returns the tools
             /\ spawned < MaxSpawn
             /\ spawned' = spawned + 1
             /\ alive' = alive \cup {spawned + 1}
             /\ session' = [session EXCEPT ![a] =
                              [created EXCEPT !.stored = "client", !.held = spawned + 1,
                                              !.procKey = spawned + 1, !.flag = TRUE]]
          \/ \* initialize() raises: its child, if any, was killed
             /\ session' = [session EXCEPT ![a] =
                              [created EXCEPT !.stored = "client", !.held = 0]]
             /\ UNCHANGED <<alive, spawned>>

\* "Emergency Stop": kill what the *_mcp_proc keys hold, clear the session.
UiEmergencyStop ==
  /\ alive' = alive \ {session[a].procKey : a \in Assistants}
  /\ session' = [a \in Assistants |-> NoSession]
  /\ UNCHANGED spawned
  /\ UiFrame

\* A child of some assistant's client exits on its own.
UiChildExits ==
  /\ \E p \in alive : alive' = alive \ {p}
  /\ UNCHANGED <<session, spawned>>
  /\ UiFrame

NextUi ==
  \/ \E a \in Assistants : UiReconnect(a)
  \/ \E a \in Assistants : UiRun(a)
  \/ UiEmergencyStop
  \/ UiChildExits

SpecUi == Init /\ [][NextUi]_vars

\* ================================================================ claims
\* The caller's thread took the step: every turn of a poll loop moves pc or
\* attempts, and no step of the server does.
CallerStepped == pc' # pc \/ attempts' # attempts

\* The line the next read returns is the JSON text of an object.
HeadIsObject == stdout # <<>> /\ Head(stdout).raw = "json" /\ IsDict(Head(stdout).val)

\* ---------------------------------------------------------------------
\* C1: the identifiers placed in tools/call requests are pairwise distinct,
\* strictly increasing in invocation order, all >= 101 and never 0 or 1,
\* whatever the outcomes of the calls; the requests written to the child
\* carry these identifiers in the same order.
C1_IdentifiersIncrease ==
  /\ \A i \in 1..Len(issued) : issued[i] >= 101 /\ issued[i] \notin {0, 1}
  /\ \A i, j \in 1..Len(issued) : i < j => issued[i] < issued[j]
  /\ \A i \in 1..Len(stdin) :
       IF i <= 3 THEN stdin[i] = InitMessages[i]
       ELSE /\ stdin[i].method = "tools/call"
            /\ \E k \in 1..Len(issued) : issued[k] = stdin[i].id
            /\ i > 4 => stdin[i - 1].id < stdin[i].id

\* Two identifiers were issued and the second call failed.
C1_Witness ==
  /\ Len(issued) >= 2
  /\ outcome.op = "call_tool" /\ ~outcome.ok

\* ---------------------------------------------------------------------
\* C2 (amended): for every K with 0 <= K < 50, when the K lines a call_tool
\* has read so far were all unrelated JSON objects, an unrelated JSON object
\* read next leaves the call pending with no response (unless it is the 50th
\* read), and the response with the allocated id and a result read next ends
\* the call with that response's result.
C2_UnrelatedObjectsSkipped ==
  [][(pc = "call_wait" /\ seen # "other" /\ HeadIsObject /\ CallerStepped) =>
       LET msg == Head(stdout).val IN
       IF \E i \in 1..Len(msg.v) : msg.v[i] = <<"id", JNum(call_id)>>
       THEN (\E i \in 1..Len(msg.v) : msg.v[i][1] = "result")
            /\ ~(\E i \in 1..Len(msg.v) : msg.v[i][1] = "error")
            => /\ pc' = "idle"
               /\ response' = msg
               /\ outcome' = NormalizeResult(Item(msg, "result"))
               /\ (msg = Reply(call_id, "result", TextContent("ok"))
                     => outcome' = Ok("call_tool", JStr("ok")))
       ELSE /\ response' = JNull
            /\ attempts + 1 < CallMaxAttempts
                 => pc' = "call_wait" /\ attempts' = attempts + 1 /\ outcome' = NoOutcome
    ]_vars

\* A call returned its result after passing over unrelated JSON objects only.
C2_Witness ==
  /\ pc = "idle"
  /\ seen = "objects"
  /\ outcome = Ok("call_tool", JStr("ok"))

\* C2 as stated, for every K >= 0: a call_tool whose request was written and
\* that read nothing but unrelated JSON objects before the first message with
\* its id, which carries a result, returns that result.
C2_AnyNumberSkipped ==
  LET first == IF response # JNull THEN response
               ELSE IF stdout # <<>> THEN ParseLine(Head(stdout)) ELSE JNull
  IN
  (/\ pc = "idle" /\ outcome.op = "call_tool"
   /\ call_id \in CallIdsSent
   /\ seen # "other"
   /\ IsDict(first) /\ Get(first, "id") = JNum(call_id)
   /\ HasKey(first, "result") /\ ~HasKey(first, "error"))
  => outcome = NormalizeResult(Item(first, "result"))

\* ---------------------------------------------------------------------
\* C3: a call_tool that is waiting for its response always comes to an end,
\* whatever the server does, also when it stays alive and writes nothing.
C3_CallTerminates == (pc = "call_wait") ~> (pc = "idle")

\* ---------------------------------------------------------------------
\* C4: a line that is not JSON, read while call_tool waits, does not complete
\* the wait and raises nothing (short of the 50th read, the call stays
\* pending); the response with the allocated id read right after it
\* completes the call with that response.
C4_GarbageLineSkipped ==
  [][(pc = "call_wait" /\ stdout # <<>> /\ CallerStepped) =>
       /\ Head(stdout) = GarbageLine =>
            /\ response' = JNull
            /\ ~(outcome'.op = "call_tool" /\ outcome'.ok)
            /\ attempts + 1 < CallMaxAttempts
                 => pc' = "call_wait" /\ attempts' = attempts + 1 /\ outcome' = NoOutcome
       /\ (prevGarbage /\ HeadIsObject
           /\ \E i \in 1..Len(Head(stdout).val.v) :
                Head(stdout).val.v[i] = <<"id", JNum(call_id)>>) =>
            /\ pc' = "idle"
            /\ response' = Head(stdout).val
            /\ outcome' = HandleResponse(Head(stdout).val)
            /\ (Head(stdout).val = Reply(call_id, "result", TextContent("ok"))
                  => outcome' = Ok("call_tool", JStr("ok")))
    ]_vars

\* A call returned its result from the line that followed a non-JSON line.
C4_Witness ==
  /\ pc = "idle"
  /\ prevGarbage
  /\ response = Reply(call_id, "result", TextContent("ok"))
  /\ outcome = Ok("call_tool", JStr("ok"))

\* The latest call_tool matched a response that carries a result.
CallMatchedResult ==
  outcome.op = "call_tool" /\ IsDict(response) /\ HasKey(response, "result")
MatchedResult == Item(response, "result")
ResultHasContent == IsDict(MatchedResult) /\ HasKey(MatchedResult, "content")

\* ---------------------------------------------------------------------
\* C5: when the matched result carries an empty content sequence, call_tool
\* returns the empty string "" (a text, not the empty sequence).
C5_EmptyContentGivesEmptyString ==
  (CallMatchedResult /\ ResultHasContent
   /\ Item(MatchedResult, "content") = JList(<<>>))
  => outcome = Ok("call_tool", JStr(""))

\* ---------------------------------------------------------------------
\* C6: when the matched result carries a non-empty content sequence (whose
\* text and raw.text fields hold texts), call_tool returns the items' texts
\* joined in their order with "\n\n", one segment per item; an item's text is
\* its text field, else raw.text when raw is an object with text, else the
\* item itself when it is a string, else the string coercion of the item.
C6_TextOf(item) ==
  CASE IsDict(item) /\ (\E i \in 1..Len(item.v) : item.v[i][1] = "text")
         -> Item(item, "text")
    [] IsDict(item) /\ ~(\E i \in 1..Len(item.v) : item.v[i][1] = "text")
       /\ (\E i \in 1..Len(item.v) :
             /\ item.v[i][1] = "raw"
             /\ item.v[i][2].t = "obj"
             /\ \E j \in 1..Len(item.v[i][2].v) : item.v[i][2].v[j][1] = "text")
         -> Item(Item(item, "raw"), "text")
    [] item.t = "str" -> item
    [] OTHER -> JStr(PyStr(item))

RECURSIVE C6_JoinFromLeft(_)
C6_JoinFromLeft(texts) ==
  IF Len(texts) = 1 THEN texts[1].v
  ELSE C6_JoinFromLeft(SubSeq(texts, 1, Len(texts) - 1)) \o "\n\n" \o texts[Len(texts)].v

RECURSIVE C6_TotalLen(_)
C6_TotalLen(texts) ==
  IF Len(texts) = 0 THEN 0 ELSE Len(texts[1].v) + C6_TotalLen(Tail(texts))

C6_ContentJoined ==
  (CallMatchedResult /\ ResultHasContent) =>
    LET content == Item(MatchedResult, "content") IN
    (content.t = "list" /\ Len(content.v) > 0) =>
      LET texts == [i \in 1..Len(content.v) |-> C6_TextOf(content.v[i])] IN
      (\A i \in 1..Len(texts) : texts[i].t = "str") =>
        /\ outcome.ok
        /\ outcome.val.t = "str"
        /\ outcome.val.v = C6_JoinFromLeft(texts)
        /\ Len(outcome.val.v) = C6_TotalLen(texts) + 2 * (Len(texts) - 1)

\* The three item shapes together: {"text": "a"}, {"raw": {"text": "b"}}, "c".
C6_Witness ==
  /\ response = Reply(call_id, "result",
                      JObj(<< <<"content", JList(<< TextItem("a"), RawItem("b"), JStr("c") >>)>> >>))
  /\ outcome = Ok("call_tool", JStr("a\n\nb\n\nc"))

\* ---------------------------------------------------------------------
\* C7: when the matched result carries no content field, also when it is not
\* an object, call_tool returns the result value itself, unchanged.
C7_PlainResultUnchanged ==
  (CallMatchedResult /\ ~ResultHasContent)
  => outcome = Ok("call_tool", MatchedResult)

\* A result without content came back as it was.
C7_Witness ==
  /\ response = Reply(call_id, "result", JObj(<< <<"result_without_content", JNum(42)>> >>))
  /\ outcome = Ok("call_tool", JObj(<< <<"result_without_content", JNum(42)>> >>))

\* ---------------------------------------------------------------------
\* C8: cleanup raises nothing and leaves the client without a process; on a
\* client without a process (cleanup just done, or initialize never called)
\* it changes nothing; and after any number of cleanups initialize can start
\* a new process.
C8_CleanupIdempotent ==
  /\ [][outcome'.op = "cleanup" =>
          /\ outcome'.ok
          /\ process' = 0 /\ pc' = "idle"
          /\ rpc_id_counter' = rpc_id_counter /\ issued' = issued
          /\ process = 0 =>
               /\ alive' = alive /\ spawned' = spawned
               /\ stdout' = stdout /\ stdin' = stdin
       ]_vars
  /\ [](outcome.op = "cleanup" =>
          /\ process = 0 /\ pc = "idle"
          /\ spawned < MaxSpawn =>
               ENABLED (InitializeStart /\ pc' = "init_wait" /\ process' # 0))

\* initialize succeeded right after two cleanups in a row, the second one on
\* a client that held no process.
C8_Witness ==
  /\ cleanStreak = 2
  /\ outcome.op = "initialize" /\ outcome.ok
  /\ process # 0 /\ process \in alive

\* ---------------------------------------------------------------------
\* C9: when a poll of the handshake (the 1st to the 20th) reads the message
\* with id 1 whose result carries the tools sequence, initialize returns
\* exactly that sequence, the empty one included, and keeps its process.
C9_HandshakeReturnsCatalog ==
  [][(pc = "init_wait" /\ stdout # <<>> /\ CallerStepped) =>
       \A c \in SeqsUpTo({ToolFoo, ToolBar}, 2) :
         Head(stdout) = JsonLine(Reply(1, "result", ToolsResult(c))) =>
           /\ attempts \in 0..19
           /\ outcome' = Ok("initialize", JList(c))
           /\ pc' = "idle"
           /\ process' = process /\ process' # 0 /\ alive' = alive
    ]_vars

\* The 20th poll is about to read the empty catalog, and reading it makes
\* initialize return the empty sequence.
C9_Witness ==
  /\ pc = "init_wait"
  /\ attempts = 19
  /\ stdout = << JsonLine(Reply(1, "result", ToolsResult(<<>>))) >>
  /\ ENABLED (InitPoll /\ outcome' = Ok("initialize", JList(<<>>)) /\ process' # 0)

\* ---------------------------------------------------------------------
\* C10: when the handshake reads the message with id 1 that carries error
\* and no result, initialize fails and the failure raised to the caller
\* carries the server's error payload.
C10_HandshakeErrorSurfaced ==
  [][(pc = "init_wait" /\ stdout # <<>> /\ CallerStepped) =>
       (Head(stdout) = JsonLine(Reply(1, "error", ErrorPayload("bad version"))) =>
          /\ outcome'.op = "initialize" /\ ~outcome'.ok
          /\ outcome'.err = "Failed to initialize MCP client: "
                            \o "MCP initialization error: {'message': 'bad version'}"
          /\ pc' = "idle")
    ]_vars

\* initialize failed with the server's "bad version" in its message.
C10_Witness ==
  /\ pc = "idle"
  /\ outcome = Fail("initialize",
       "Failed to initialize MCP client: MCP initialization error: {'message': 'bad version'}")

\* msg, a JSON object, carries the key k / the pair <<k, x>>
Carries(msg, k) == \E i \in 1..Len(msg.v) : msg.v[i][1] = k
CarriesPair(msg, k, x) == \E i \in 1..Len(msg.v) : msg.v[i] = <<k, x>>

\* ---------------------------------------------------------------------
\* C11: when call_tool reads the response with its id: if the response
\* carries error, the call fails, and with an error object that holds a
\* message the failure carries that message; the call returns a value only
\* when the response carries result (and no error); a response with neither
\* is a failure.
C11_MatchedResponseHandled ==
  [][(pc = "call_wait" /\ HeadIsObject /\ CallerStepped
      /\ CarriesPair(Head(stdout).val, "id", JNum(call_id))) =>
       LET msg == Head(stdout).val IN
       /\ pc' = "idle" /\ outcome'.op = "call_tool"
       /\ Carries(msg, "error") => ~outcome'.ok
       /\ CarriesPair(msg, "error", JObj(<< <<"message", JStr("boom")>> >>))
            => outcome' = Fail("call_tool", "MCP tool error: boom")
       /\ outcome'.ok => Carries(msg, "result") /\ ~Carries(msg, "error")
       /\ (~Carries(msg, "result") /\ ~Carries(msg, "error"))
            => outcome' = Fail("call_tool", "Invalid MCP response: missing result")
    ]_vars

\* A call failed with the message of the server's error reply.
C11_Witness ==
  /\ pc = "idle"
  /\ response = Reply(call_id, "error", ErrorPayload("boom"))
  /\ outcome = Fail("call_tool", "MCP tool error: boom")

\* ---------------------------------------------------------------------
\* C12: while no handshake has completed on the current connection (before
\* the first initialize, after an initialize that failed, after cleanup, and
\* after a call_tool that was refused for this reason), the client holds no
\* process, call_tool can be called, and it fails with "MCP client not
\* initialized" without writing to any process or touching one.
C12_NoHandshake ==
  /\ pc = "idle"
  /\ \/ outcome = NoOutcome
     \/ outcome.op = "initialize" /\ ~outcome.ok
     \/ outcome.op = "cleanup"
     \/ outcome = Fail("call_tool", "MCP client not initialized")

C12_NotInitializedRefused ==
  /\ [](C12_NoHandshake => process = 0 /\ ENABLED CallToolStart)
  /\ [][(C12_NoHandshake /\ CallToolStart) =>
          /\ outcome' = Fail("call_tool", "MCP client not initialized")
          /\ pc' = "idle"
          /\ stdin' = stdin /\ stdout' = stdout
          /\ alive' = alive /\ spawned' = spawned /\ process' = process
          /\ rpc_id_counter' = rpc_id_counter /\ issued' = issued
       ]_vars

\* After an initialize and a cleanup, a call_tool was refused.
C12_Witness ==
  /\ outcome = Fail("call_tool", "MCP client not initialized")
  /\ spawned >= 1
  /\ cleanStreak >= 1

\* ---------------------------------------------------------------------
\* C13: at most one child process started by the client is alive.
C13_AtMostOneLiveProcess == Cardinality(alive) <= 1

\* ---------------------------------------------------------------------
\* C14: an initialize that is waiting for the tools list always comes to an
\* end, whatever the server does, also when it stays alive and writes nothing.
C14_InitializeTerminates == (pc = "init_wait") ~> (pc = "idle")

\* ---------------------------------------------------------------------
\* C15: a cleanup on a client that holds a process calls terminate first,
\* and kill only after it, only once, and only for a child that was still
\* running (the wait ran out); it raises nothing, leaves the client without
\* a handle, and the child it held is not alive any more.
C15_TerminateThenKill ==
  [][(process # 0 /\ outcome'.op = "cleanup") =>
       /\ outcome'.ok /\ pc' = "idle"
       /\ signalled' \in {<<"terminate">>, <<"terminate", "kill">>}
       /\ \A i \in 1..Len(signalled') :
            signalled'[i] = "kill" =>
              /\ \E j \in 1..(i - 1) : signalled'[j] = "terminate"
              /\ process \in alive
       /\ process' = 0
       /\ process \notin alive'
    ]_vars

\* A cleanup had to kill its child after the terminate request.
C15_Witness ==
  /\ outcome.op = "cleanup"
  /\ signalled = <<"terminate", "kill">>
  /\ process = 0

\* ---------------------------------------------------------------------
\* C16: no step writes a request again or starts a second child: while an
\* operation waits (through drained messages, error replies and timeouts)
\* nothing is written and nothing is started; the step that begins a
\* call_tool writes its one tools/call request or nothing; the step that
\* begins an initialize starts at most one child and writes the three
\* handshake messages once each or nothing; every request on the pipe is
\* there once.
C16_NoAutomaticRetry ==
  /\ [][/\ spawned' \in {spawned, spawned + 1}
        /\ pc # "idle" =>
             /\ spawned' = spawned
             /\ stdin' = stdin \/ (stdin' = <<>> /\ process' = 0)
        /\ pc = "idle" =>
             \/ stdin' = stdin /\ spawned' = spawned
             \/ stdin' = <<>> /\ process' = 0
             \/ /\ stdin' = Append(stdin, [id |-> rpc_id_counter', method |-> "tools/call"])
                /\ rpc_id_counter' = rpc_id_counter + 1
                /\ spawned' = spawned
             \/ /\ Len(stdin') = 3
                /\ {stdin'[i].method : i \in 1..3}
                     = {"initialize", "notifications/initialized", "tools/list"}
       ]_vars
  /\ [](\A i, j \in 1..Len(stdin) : stdin[i] = stdin[j] => i = j)

\* A call timed out and its request is on the pipe once, after the handshake.
C16_Witness ==
  /\ pc = "idle"
  /\ outcome = Fail("call_tool", "Timeout waiting for MCP response")
  /\ Len(stdin) = 4
  /\ stdin[4] = [id |-> call_id, method |-> "tools/call"]

\* ---------------------------------------------------------------------
\* C17: whenever initialize reads the inbound stream, the child's stdin
\* holds exactly: the request "initialize" with id 0, then the notification
\* "notifications/initialized" without id, then the request "tools/list"
\* with id 1; the step that writes them reads nothing.
C17_HandshakeOrder ==
  /\ [](pc = "init_wait" =>
          stdin = << [id |-> 0, method |-> "initialize"],
                     [id |-> NoId, method |-> "notifications/initialized"],
                     [id |-> 1, method |-> "tools/list"] >>)
  /\ [][(pc = "idle" /\ pc' = "init_wait") =>
          /\ stdin'[1].id = 0 /\ stdin'[2].id = NoId /\ stdin'[3].id = 1
          /\ attempts' = 0 /\ stdout' = <<>> /\ seen' = "nothing"
       ]_vars
  /\ [][(attempts' > attempts /\ pc = "init_wait") => Len(stdin) = 3]_vars

\* The handshake made its first read with the three messages written.
C17_Witness ==
  /\ pc = "init_wait"
  /\ attempts = 1
  /\ Len(stdin) = 3 /\ stdin[3] = [id |-> 1, method |-> "tools/list"]

\* ---------------------------------------------------------------------
\* C18 (amended): for every K with 0 <= K < 20, when the K lines the
\* handshake has read so far were all JSON objects whose id is not 1, such an
\* object read next leaves the handshake pending with its process (unless it
\* is the 20th read), and the message with id 1 read next decides the
\* outcome: the tools of its result, or the failure with its error.
C18_OtherIdsDrained ==
  [][(pc = "init_wait" /\ seen # "other" /\ HeadIsObject /\ CallerStepped) =>
       LET msg == Head(stdout).val IN
       IF CarriesPair(msg, "id", JNum(1))
       THEN /\ \A c \in SeqsUpTo({ToolFoo, ToolBar}, 2) :
                 CarriesPair(msg, "result", JObj(<< <<"tools", JList(c)>> >>))
                   => outcome' = Ok("initialize", JList(c)) /\ process' = process
            /\ (Carries(msg, "error") /\ ~Carries(msg, "result"))
                 => outcome'.op = "initialize" /\ ~outcome'.ok
       ELSE attempts + 1 < InitMaxAttempts
              => /\ pc' = "init_wait" /\ attempts' = attempts + 1
                 /\ outcome' = NoOutcome
                 /\ process' = process /\ alive' = alive
    ]_vars

\* initialize returned the tools after passing over messages with other ids.
C18_Witness ==
  /\ pc = "idle"
  /\ seen = "objects"
  /\ outcome = Ok("initialize", JList(<<ToolFoo>>))

\* C18 as stated, for every K >= 0: a JSON object whose id is not 1, read by
\* a handshake that has read nothing but such objects, does not end the
\* handshake: the outcome is left to the message with id 1.
C18_AnyNumberDrained ==
  (/\ pc = "init_wait" /\ seen # "other" /\ HeadIsObject
   /\ ~CarriesPair(Head(stdout).val, "id", JNum(1)))
  => ~ENABLED (InitPoll /\ outcome'.op = "initialize")

\* ---------------------------------------------------------------------
\* C19: a poll of call_tool or of the handshake that finds the child exited
\* (readline returns "" at end of file) is the operation's last poll.
C19_FailFastOnExit ==
  (/\ pc \in {"call_wait", "init_wait"}
   /\ stdout = <<>> /\ process \notin alive)
  => ~ENABLED ((CallPoll \/ InitPoll) /\ pc' = pc)

\* ---------------------------------------------------------------------
\* C20: a call_tool begun while the client holds the handle of a child that
\* has died fails at once with the send failure: it writes nothing, does not
\* wait and returns no value; and a call_tool that waits on a dead child is
\* never blocked in its read and, once the buffered lines are read, only
\* counts attempts until it fails with the timeout.
C20_DeadChildFailsCall ==
  /\ [][(pc = "idle" /\ process # 0 /\ process \notin alive
         /\ rpc_id_counter' # rpc_id_counter) =>
          /\ outcome'.op = "call_tool" /\ ~outcome'.ok
          /\ outcome'.err = "Failed to send MCP call: [Errno 32] Broken pipe"
          /\ pc' = "idle"
          /\ stdin' = stdin
       ]_vars
  /\ [](pc = "call_wait" /\ process \notin alive => ENABLED CallPoll)
  /\ [][(pc = "call_wait" /\ process \notin alive /\ stdout = <<>> /\ CallerStepped) =>
          \/ pc' = "call_wait" /\ attempts' = attempts + 1
          \/ /\ attempts + 1 = CallMaxAttempts
             /\ outcome' = Fail("call_tool", "Timeout waiting for MCP response")
       ]_vars

\* A second call on the handle of a dead child failed at its write.
C20_Witness ==
  /\ pc = "idle"
  /\ process # 0 /\ process \notin alive
  /\ Len(issued) = 2
  /\ outcome = Fail("call_tool", "Failed to send MCP call: [Errno 32] Broken pipe")

\* ---------------------------------------------------------------------
\* C21: after a call that timed out, a reply that carries the id of an
\* earlier call, read while a later call waits, is passed over: it sets no
\* response and ends the call with no value (short of the 50th read the call
\* stays pending); a call that returns a value matched a message whose id is
\* its own, the latest identifier allocated.
C21_StaleReplyDiscarded ==
  /\ [][(pc = "call_wait" /\ HeadIsObject /\ CallerStepped
         /\ \E k \in 1..Len(issued) :
              /\ issued[k] # call_id
              /\ CarriesPair(Head(stdout).val, "id", JNum(issued[k]))) =>
          /\ response' = JNull
          /\ ~(outcome'.op = "call_tool" /\ outcome'.ok)
          /\ attempts + 1 < CallMaxAttempts
               => pc' = "call_wait" /\ attempts' = attempts + 1 /\ outcome' = NoOutcome
       ]_vars
  /\ []((outcome.op = "call_tool" /\ outcome.ok) =>
          /\ CarriesPair(response, "id", JNum(call_id))
          /\ call_id = issued[Len(issued)]
          /\ \A k \in 1..(Len(issued) - 1) : issued[k] < call_id)

\* The reply to the call that timed out came late: the next call finds it on
\* the stream, and reading it leaves that call waiting without a response.
C21_Witness ==
  /\ pc = "call_wait"
  /\ Len(issued) = 2 /\ call_id = issued[2]
  /\ stdout = << JsonLine(Reply(issued[1], "result", TextContent("ok"))) >>
  /\ ENABLED (CallPoll /\ pc' = "call_wait" /\ response' = JNull /\ attempts' = 1)

\* ---------------------------------------------------------------------
\* C22: a message is written only to a child that runs; a call_tool begun on
\* a client without a handle, or with the handle of a child that has exited,
\* fails in the step that begins it, writes nothing and does not wait; so a
\* call_tool waits only after its request went onto the pipe.
C22_SendFailsWhenNotRunning ==
  /\ [][Len(stdin') > Len(stdin) => process' # 0 /\ process' \in alive']_vars
  /\ [][(CallToolStart /\ (process = 0 \/ process \notin alive)) =>
          /\ outcome'.op = "call_tool" /\ ~outcome'.ok
          /\ pc' = "idle"
          /\ stdin' = stdin
          /\ process # 0 => outcome'.err = "Failed to send MCP call: [Errno 32] Broken pipe"
       ]_vars
  /\ [](pc = "call_wait" =>
          /\ Len(stdin) >= 4
          /\ stdin[Len(stdin)] = [id |-> call_id, method |-> "tools/call"])

\* The first call on a client whose child had exited failed at its write:
\* only the handshake is on the pipe.
C22_Witness ==
  /\ pc = "idle"
  /\ process # 0 /\ process \notin alive
  /\ Len(issued) = 1 /\ Len(stdin) = 3
  /\ outcome = Fail("call_tool", "Failed to send MCP call: [Errno 32] Broken pipe")

\* ---------------------------------------------------------------------
\* C23: while call_tool waits, a line that is not the response with the
\* allocated id (whatever it is: blank, not JSON, a notification, a reply to
\* another id, JSON that is not an object) is read without ending the call,
\* short of the 50th read.
C23_EveryOtherLineDiscarded ==
  (/\ pc = "call_wait" /\ stdout # <<>>
   /\ ~(HeadIsObject /\ CarriesPair(Head(stdout).val, "id", JNum(call_id)))
   /\ attempts + 1 < CallMaxAttempts)
  => ENABLED (CallPoll /\ pc' = "call_wait" /\ outcome' = NoOutcome)

\* ---------------------------------------------------------------------
\* C24: whatever the interleaving with the caller's thread, no stderr thread
\* faults on a handle cleared between its test and its use, and a thread
\* that finds its own child terminated when it comes back to the loop test
\* does not take up reading again.
C24_DrainExitsCleanly ==
  /\ [](\A n \in 1..MaxSpawn : drains[n].pc # "faulted")
  /\ [][\A n \in 1..MaxSpawn :
          (drains[n].pc \in {"test", "poll", "attr"} /\ n \notin alive)
            => drains'[n].pc # "reading"]_vars

\* ---------------------------------------------------------------------
\* C25: the stderr thread started with the n-th child reads the stderr of
\* that child only, and no child has its stderr read by two threads.
C25_OneDrainPerProcess ==
  /\ \A n \in 1..MaxSpawn : drains[n].pc = "reading" => drains[n].target = n
  /\ \A m, n \in 1..MaxSpawn :
       (/\ drains[m].pc = "reading" /\ drains[n].pc = "reading"
        /\ drains[m].target = drains[n].target) => m = n

\* ---------------------------------------------------------------------
\* C26: two call_tool invocations that overlap never wait for a response
\* with the same identifier, and no identifier is put in two requests.
C26_DistinctIdsInFlight ==
  /\ \A t, u \in Threads :
       (t # u /\ callers[t].pc = "waiting" /\ callers[u].pc = "waiting")
         => callers[t].id # callers[u].id
  /\ \A i, j \in 1..Len(issued) : issued[i] = issued[j] => i = j

\* ---------------------------------------------------------------------
\* C27: a call_tool that fails after its request was sent (timeout, tool
\* error, missing result) leaves the handle, the child, the pipe and the
\* counter as they were and signals nothing; from there the next call_tool
\* can be sent with the next, larger identifier; and a waiting call that
\* reads the reply to its identifier returns that reply's result.
C27_FailedCallKeepsConnection ==
  /\ [][(pc = "call_wait" /\ pc' = "idle" /\ ~outcome'.ok) =>
          /\ process' = process /\ process' # 0
          /\ alive' = alive
          /\ stdin' = stdin
          /\ signalled' = <<>>
          /\ rpc_id_counter' = rpc_id_counter
       ]_vars
  /\ []((/\ pc = "idle" /\ outcome.op = "call_tool" /\ ~outcome.ok
         /\ process \in alive
         /\ rpc_id_counter < InitialRpcIdCounter + MaxCalls) =>
          ENABLED (/\ CallToolStart /\ pc' = "call_wait"
                   /\ call_id' = rpc_id_counter + 1 /\ call_id' > call_id))
  /\ [][(/\ pc = "call_wait" /\ stdout # <<>> /\ CallerStepped
         /\ Head(stdout) = JsonLine(Reply(call_id, "result", TextContent("ok")))) =>
          outcome' = Ok("call_tool", JStr("ok")) /\ process' = process
       ]_vars

\* A call failed with the server's tool error; the child runs on and the
\* next call can be sent.
C27_Witness ==
  /\ pc = "idle"
  /\ outcome = Fail("call_tool", "MCP tool error: boom")
  /\ process # 0 /\ process \in alive
  /\ ENABLED (CallToolStart /\ pc' = "call_wait" /\ call_id' = call_id + 1)

\* ---------------------------------------------------------------------
\* C28: every failing initialize, at the spawn, at a write or in the wait,
\* ends with no handle, and the process it held at that moment is dead and
\* was killed; an initialize that ends with a handle has succeeded.
C28_FailedInitializeDropsProcess ==
  /\ []((outcome.op = "initialize" /\ ~outcome.ok) => process = 0 /\ pc = "idle")
  /\ [][(pc = "init_wait" /\ pc' = "idle") =>
          IF outcome'.ok
          THEN outcome'.op = "initialize" /\ process' = process /\ process' # 0
          ELSE /\ outcome'.op = "initialize"
               /\ process' = 0
               /\ process \notin alive'
               /\ signalled' = <<"kill">>
       ]_vars
  /\ [][(InitializeStart /\ pc' = "idle") =>
          /\ outcome'.op = "initialize" /\ ~outcome'.ok
          /\ process' = 0
          /\ IF spawned' > spawned
             THEN spawned' \notin alive' /\ signalled' = <<"kill">>
             ELSE process # 0 => process \notin alive' /\ signalled' = <<"kill">>
       ]_vars

\* A handshake timed out: no handle, no live child, and a kill was sent.
C28_Witness ==
  /\ pc = "idle"
  /\ outcome = Fail("initialize",
                    "Failed to initialize MCP client: Timeout waiting for tools list")
  /\ process = 0 /\ alive = {}
  /\ signalled = <<"kill">>

\* ---------------------------------------------------------------------
\* C29: whenever <assistant>_initialized is set, the assistant object in the
\* session holds an MCP client with a process (initialize_resources ran for
\* this object, also after "Reconnect MCP"); and no child runs on that the
\* session's assistants do not hold (Reconnect leaves no process behind).
C29_ReconnectReinitializes ==
  /\ \A a \in Assistants :
       session[a].flag => session[a].stored = "client" /\ session[a].held # 0
  /\ \A p \in alive : \E a \in Assistants : session[a].held = p

\* ---------------------------------------------------------------------
\* C30: no step lowers the identifier counter and none raises it by more
\* than one; cleanup and initialize leave it alone; a call_tool refused as
\* not initialized leaves the counter, the pipe and the issued identifiers as
\* they were; a call_tool that passes the check takes exactly one identifier,
\* also when its send fails.
C30_CounterFrame ==
  /\ [][rpc_id_counter' \in {rpc_id_counter, rpc_id_counter + 1}]_vars
  /\ [][(InitializeStart \/ InitPoll \/ Cleanup) => rpc_id_counter' = rpc_id_counter]_vars
  /\ [][(CallToolStart /\ process = 0) =>
          /\ outcome' = Fail("call_tool", "MCP client not initialized")
          /\ rpc_id_counter' = rpc_id_counter
          /\ stdin' = stdin /\ issued' = issued
       ]_vars
  /\ [][(CallToolStart /\ process # 0) =>
          /\ rpc_id_counter' = rpc_id_counter + 1
          /\ call_id' = rpc_id_counter'
          /\ issued' = Append(issued, rpc_id_counter + 1)
          /\ process \notin alive => ~outcome'.ok /\ stdin' = stdin
       ]_vars
  /\ [](rpc_id_counter = InitialRpcIdCounter + Len(issued))

\* After a call that took 101 and a cleanup, a refused call_tool left the
\* counter at 101.
C30_Witness ==
  /\ pc = "idle"
  /\ outcome = Fail("call_tool", "MCP client not initialized")
  /\ rpc_id_counter = InitialRpcIdCounter + 1
  /\ cleanStreak >= 1

====
